---- MODULE Spec2Model ----
(***************************************************************************)
(* A model of gamepad.js (Gamepad class, lines 24-972): the controller     *)
(* registry, the platform sources, the per-tick update/diff engine and the *)
(* event dispatcher.                                                       *)
(*                                                                         *)
(* Numbers are in hundredths: 50 stands for 0.5, 3 for 0.03, 100 for 1.    *)
(* The array this.gamepads is a sequence whose element s+1 is slot s; an   *)
(* array hole reads as Undefined and counts in the length, as in JS.       *)
(* A device name is a sequence of text fragments; a substring search finds *)
(* a needle when one fragment, lower-cased, is the needle.                 *)
(*                                                                         *)
(* Spec is the registry with its sources and ticks: every _fire call is    *)
(* recorded in events and handlers are taken to return normally.           *)
(* SpecDispatch is the dispatcher alone, with handlers that may themselves *)
(* call bind and unbind while a _fire is in progress.                      *)
(* SpecTicker is the registry driven by the self-scheduling update         *)
(* strategy, with a tick handler that may raise.  SpecAnalog is the        *)
(* registry with one-button controllers whose buttons report analog        *)
(* values.  SpecTrace is the registry under a host that announces what it  *)
(* plugs and unplugs, with the history of connected and disconnected       *)
(* events.  SpecResolve and SpecShape apply _resolveControllerType,        *)
(* _getMapping and _applyDeadzoneMaximize to inputs drawn from bounded     *)
(* sets.                                                                   *)
(***************************************************************************)
EXTENDS Integers, Sequences, FiniteSets, TLC

VARIABLES
    deadzone,    \* this.deadzone, in hundredths
    maximizeThreshold, \* this.maximizeThreshold, in hundredths
    host,        \* the capabilities the window object offers
    platform,    \* this.platform: "null", "webkit" or "firefox"
    started,     \* the update strategy has been given the update function
    updateStrategy, \* this.updateStrategy: its kind and the callbacks it has
                 \* pending with requestAnimationFrame
    gamepads,    \* this.gamepads, the sparse array of registered controllers
    hostPads,    \* the array the WebKit poll function returns (null = absent)
    knownGamepads, \* WebKitPlatform.knownGamepads
    events,      \* the _fire calls of the last operation, in order
    op,          \* the last operation, its arguments and its return value
    listeners,   \* this.listeners: channel -> sequence of handlers
    firing,      \* the _fire call in progress, if any
    invoked,     \* the handler invocations of the _fire call in progress
    unmatched    \* history: the devices whose last connected event has no
                 \* disconnected event after it (kept by SpecTrace only)

vars == <<deadzone, maximizeThreshold, host, platform, started, updateStrategy,
          gamepads, hostPads, knownGamepads, events, op,
          listeners, firing, invoked, unmatched>>

(***************************************************************************)
(* Static data                                                             *)
(***************************************************************************)

\* Gamepad.Type
Type ==
    [PLAYSTATION |-> "playstation", LOGITECH |-> "logitech",
     XBOX |-> "xbox", UNSUPPORTED |-> "unsupported"]

\* Gamepad.Event
Event ==
    [CONNECTED |-> "connected", UNSUPPORTED |-> "unsupported",
     DISCONNECTED |-> "disconnected", TICK |-> "tick",
     BUTTON_DOWN |-> "button-down", BUTTON_UP |-> "button-up",
     AXIS_CHANGED |-> "axis-changed"]

\* Gamepad.Mapping, each table cut to a few of its entries, in declaration
\* order.  An entry with fn = "index" is a plain raw index; the other two
\* are the derivation functions of LOGITECH_FIREFOX, which read axes[2].
Mapping ==
    [PLAYSTATION_FIREFOX |->
        [buttons |-> << [control |-> "CROSS", fn |-> "index", index |-> 14] >>,
         axes |-> << >>],
     PLAYSTATION_WEBKIT |->
        [buttons |-> << [control |-> "CROSS", fn |-> "index", index |-> 0] >>,
         axes |-> << >>],
     LOGITECH_FIREFOX |->
        [buttons |-> << [control |-> "A", fn |-> "index", index |-> 0] >>,
         axes |-> << [control |-> "LEFT_TRIGGER", fn |-> "LEFT_TRIGGER", index |-> 2] >>],
     LOGITECH_WEBKIT |->
        [buttons |-> << [control |-> "A", fn |-> "index", index |-> 1] >>,
         axes |-> << [control |-> "LEFT_STICK_X", fn |-> "index", index |-> 0] >>],
     XBOX |->
        [buttons |-> << [control |-> "A", fn |-> "index", index |-> 0],
                        [control |-> "B", fn |-> "index", index |-> 1] >>,
         axes |-> << >>]]

NoMapping == "null"

\* An array hole, or a property that was never set.
Undefined == [dev |-> "undefined"]

\* The host's null entry for an absent slot.
Null == "null"

(***************************************************************************)
(* The environment: raw devices and the values they can report             *)
(***************************************************************************)

Slots == 0 .. 1

\* The raw devices the host can present: index is the slot, id the name.
Devices ==
    [padX0 |-> [index |-> 0, id |-> << "Xbox", " ", "360", " Controller" >>],
     padL0 |-> [index |-> 0, id |-> << "Logitech", " Dual Action" >>],
     padP1 |-> [index |-> 1, id |-> << "Sony ", "PlayStation", "(R)3 Controller" >>],
     padG1 |-> [index |-> 1, id |-> << "Generic USB Joystick" >>]]

DeviceIds == DOMAIN Devices

ButtonValues == {0, 50, 100}
AxisValues == {-98, 2, 50, 98}

(***************************************************************************)
(* Array helpers (JS semantics)                                            *)
(***************************************************************************)

\* arr[i], Undefined past the end or at a hole
ArrGet(arr, i) == IF i + 1 \in DOMAIN arr THEN arr[i + 1] ELSE Undefined

\* arr[i] = v, growing the array with holes when i is past the end
ArrSet(arr, i, v) ==
    [k \in 1 .. (IF Len(arr) > i + 1 THEN Len(arr) ELSE i + 1) |->
        IF k = i + 1 THEN v ELSE ArrGet(arr, k - 1)]

\* arr.splice(start, 1)
Splice1(arr, start) ==
    IF start >= Len(arr) THEN arr
    ELSE [k \in 1 .. (Len(arr) - 1) |-> IF k <= start THEN arr[k] ELSE arr[k + 1]]

\* arr.indexOf(x) >= 0
Includes(arr, x) == \E k \in DOMAIN arr : arr[k] = x

IsDefined(entry) == entry.dev # "undefined"

(***************************************************************************)
(* Pure functions of the engine                                            *)
(***************************************************************************)

\* String.prototype.toLowerCase on one fragment of a name
toLowerCase(s) ==
    CASE s = "Xbox" -> "xbox"
      [] s = " Controller" -> " controller"
      [] s = "Sony " -> "sony "
      [] s = "PlayStation" -> "playstation"
      [] s = "(R)3 Controller" -> "(r)3 controller"
      [] s = "Logitech" -> "logitech"
      [] s = " Dual Action" -> " dual action"
      [] s = "Generic USB Joystick" -> "generic usb joystick"
      [] s = "Wireless Gamepad" -> "wireless gamepad"
      [] s = "XBOX" -> "xbox"
      [] OTHER -> s

\* the tests of _resolveControllerType with the Xbox test moved to the front
_resolveControllerType_xboxFirst(id) ==
    LET lower == [k \in DOMAIN id |-> toLowerCase(id[k])]
        found(needle) == Includes(lower, needle)
    IN  IF found("xbox") \/ found("360") THEN Type.XBOX
        ELSE IF found("playstation") THEN Type.PLAYSTATION
        ELSE IF found("logitech") \/ found("wireless gamepad") THEN Type.LOGITECH
        ELSE Type.UNSUPPORTED

_resolveControllerType(id) ==
    LET lower == [k \in DOMAIN id |-> toLowerCase(id[k])]
        found(needle) == Includes(lower, needle)
    IN  IF found("playstation") THEN Type.PLAYSTATION
        ELSE IF found("logitech") \/ found("wireless gamepad") THEN Type.LOGITECH
        ELSE IF found("xbox") \/ found("360") THEN Type.XBOX
        ELSE Type.UNSUPPORTED

WebKitGetMapping(type) ==
    IF type = Type.LOGITECH THEN "LOGITECH_WEBKIT"
    ELSE IF type = Type.PLAYSTATION THEN "PLAYSTATION_WEBKIT"
    ELSE NoMapping

FirefoxGetMapping(type) ==
    IF type = Type.LOGITECH THEN "LOGITECH_FIREFOX"
    ELSE IF type = Type.PLAYSTATION THEN "PLAYSTATION_FIREFOX"
    ELSE NoMapping

\* this.platform.getMapping(type); the null platform has no mapping
getMapping(plat, type) ==
    IF plat = "webkit" THEN WebKitGetMapping(type)
    ELSE IF plat = "firefox" THEN FirefoxGetMapping(type)
    ELSE NoMapping

\* _getMapping without its Xbox branch: the platform is always asked
_getMapping_platformOnly(plat, type) == getMapping(plat, type)

_getMapping(plat, type) ==
    IF type = Type.XBOX THEN "XBOX" ELSE getMapping(plat, type)

\* the shaping with the maximize test of the negative branch left out
_applyDeadzoneMaximize_noNegativeMax(value, dz, mt) ==
    IF value >= 0
    THEN IF value < dz THEN 0 ELSE IF value > mt THEN 100 ELSE value
    ELSE IF value > -dz THEN 0 ELSE value

\* the shaping with <= and >= for < and >: a value on a threshold snaps
_applyDeadzoneMaximize_inclusive(value, dz, mt) ==
    IF value >= 0
    THEN IF value <= dz THEN 0 ELSE IF value >= mt THEN 100 ELSE value
    ELSE IF value >= -dz THEN 0 ELSE IF value <= -mt THEN -100 ELSE value

\* the body of _applyDeadzoneMaximize after its two defaulting lines; dz and
\* mt are the deadzone and the threshold in effect
_applyDeadzoneMaximize(value, dz, mt) ==
    IF value >= 0
    THEN IF value < dz THEN 0 ELSE IF value > mt THEN 100 ELSE value
    ELSE IF value > -dz THEN 0 ELSE IF value < -mt THEN -100 ELSE value

\* The platform isSupported(): only the null platform says false.
isSupported(plat) == plat # "null"

WebKitFactory(h) == IF "webkitGetGamepads" \in h THEN "webkit" ELSE "null"

FirefoxFactory(h) == IF "addEventListener" \in h THEN "firefox" ELSE "null"

\* Gamepad.PlatformFactories, in order
PlatformFactories(h) == << WebKitFactory(h), FirefoxFactory(h) >>

\* the platform kind each factory of the list builds when it qualifies
FactoryNames == << "webkit", "firefox" >>

\* the loop of resolvePlatform without its isSupported test: every factory
\* is invoked and the last result is kept
RECURSIVE resolveLoop_noStop(_, _, _)
resolveLoop_noStop(h, r, i) ==
    IF i < Len(PlatformFactories(h))
    THEN resolveLoop_noStop(h, [platform |-> PlatformFactories(h)[i + 1],
                                invoked |-> Append(r.invoked, FactoryNames[i + 1])],
                            i + 1)
    ELSE r

\* r is [platform, invoked]: the platform so far and the factories invoked
RECURSIVE resolveLoop(_, _, _)
resolveLoop(h, r, i) ==
    IF ~isSupported(r.platform) /\ i < Len(PlatformFactories(h))
    THEN resolveLoop(h, [platform |-> PlatformFactories(h)[i + 1],
                         invoked |-> Append(r.invoked, FactoryNames[i + 1])],
                     i + 1)
    ELSE r

resolvePlatform(h) == resolveLoop(h, [platform |-> "null", invoked |-> << >>], 0).platform

(***************************************************************************)
(* The registry: _connect, _disconnect, count                              *)
(***************************************************************************)

ButtonNames(mapping) ==
    {Mapping[mapping].buttons[k].control : k \in DOMAIN Mapping[mapping].buttons}

AxisNames(mapping) ==
    {Mapping[mapping].axes[k].control : k \in DOMAIN Mapping[mapping].axes}

\* _fire seen from the registry: the call is recorded in order
Fired(evs, event, data) == Append(evs, [name |-> event, data |-> data])

\* _connect without the first return: an unsupported type goes on to the
\* mapping test and reports the device a second time
_connect_noReturn(g, plat, d) ==
    LET type == _resolveControllerType(Devices[d].id)
        mapping == _getMapping(plat, type)
        zero == [c \in ButtonNames(mapping) \cup AxisNames(mapping) |-> 0]
        gamepad == [dev |-> d, index |-> Devices[d].index, type |-> type,
                    mapping |-> mapping, state |-> zero, lastState |-> zero,
                    downButtons |-> << >>, ticked |-> FALSE]
        first == IF type = Type.UNSUPPORTED
                 THEN Fired(g.events, Event.UNSUPPORTED, d) ELSE g.events
    IN  IF mapping = NoMapping
        THEN [gamepads |-> g.gamepads,
              events |-> Fired(first, Event.UNSUPPORTED, d), ret |-> FALSE]
        ELSE [gamepads |-> ArrSet(g.gamepads, gamepad.index, gamepad),
              events |-> Fired(first, Event.CONNECTED, d), ret |-> TRUE]

\* _connect without the loop over mapping.axes: the axes get no state
_connect_buttonsOnly(g, plat, d) ==
    LET type == _resolveControllerType(Devices[d].id)
        mapping == _getMapping(plat, type)
        zero == [c \in ButtonNames(mapping) |-> 0]
        gamepad == [dev |-> d, index |-> Devices[d].index, type |-> type,
                    mapping |-> mapping, state |-> zero, lastState |-> zero,
                    downButtons |-> << >>, ticked |-> FALSE]
    IN  IF type = Type.UNSUPPORTED \/ mapping = NoMapping
        THEN [gamepads |-> g.gamepads,
              events |-> Fired(g.events, Event.UNSUPPORTED, d), ret |-> FALSE]
        ELSE [gamepads |-> ArrSet(g.gamepads, gamepad.index, gamepad),
              events |-> Fired(g.events, Event.CONNECTED, d), ret |-> TRUE]

\* _connect without the return after its second unsupported event: a device
\* without a mapping is registered all the same
_connect_registersUnmapped(g, plat, d) ==
    LET type == _resolveControllerType(Devices[d].id)
        mapping == _getMapping(plat, type)
        zero == IF mapping = NoMapping THEN << >>
                ELSE [c \in ButtonNames(mapping) \cup AxisNames(mapping) |-> 0]
        gamepad == [dev |-> d, index |-> Devices[d].index, type |-> type,
                    mapping |-> mapping, state |-> zero, lastState |-> zero,
                    downButtons |-> << >>, ticked |-> FALSE]
    IN  IF type = Type.UNSUPPORTED
        THEN [gamepads |-> g.gamepads,
              events |-> Fired(g.events, Event.UNSUPPORTED, d), ret |-> FALSE]
        ELSE IF mapping = NoMapping
        THEN [gamepads |-> ArrSet(g.gamepads, gamepad.index, gamepad),
              events |-> Fired(Fired(g.events, Event.UNSUPPORTED, d),
                               Event.CONNECTED, d),
              ret |-> TRUE]
        ELSE [gamepads |-> ArrSet(g.gamepads, gamepad.index, gamepad),
              events |-> Fired(g.events, Event.CONNECTED, d), ret |-> TRUE]

\* _connect without the loop over mapping.buttons: the buttons get no state
_connect_axesOnly(g, plat, d) ==
    LET type == _resolveControllerType(Devices[d].id)
        mapping == _getMapping(plat, type)
        zero == [c \in AxisNames(mapping) |-> 0]
        gamepad == [dev |-> d, index |-> Devices[d].index, type |-> type,
                    mapping |-> mapping, state |-> zero, lastState |-> zero,
                    downButtons |-> << >>, ticked |-> FALSE]
    IN  IF type = Type.UNSUPPORTED \/ mapping = NoMapping
        THEN [gamepads |-> g.gamepads,
              events |-> Fired(g.events, Event.UNSUPPORTED, d), ret |-> FALSE]
        ELSE [gamepads |-> ArrSet(g.gamepads, gamepad.index, gamepad),
              events |-> Fired(g.events, Event.CONNECTED, d), ret |-> TRUE]

\* _connect whose two loops zero state but not lastState
_connect_stateOnly(g, plat, d) ==
    LET type == _resolveControllerType(Devices[d].id)
        mapping == _getMapping(plat, type)
        zero == [c \in ButtonNames(mapping) \cup AxisNames(mapping) |-> 0]
        gamepad == [dev |-> d, index |-> Devices[d].index, type |-> type,
                    mapping |-> mapping, state |-> zero, lastState |-> << >>,
                    downButtons |-> << >>, ticked |-> FALSE]
    IN  IF type = Type.UNSUPPORTED \/ mapping = NoMapping
        THEN [gamepads |-> g.gamepads,
              events |-> Fired(g.events, Event.UNSUPPORTED, d), ret |-> FALSE]
        ELSE [gamepads |-> ArrSet(g.gamepads, gamepad.index, gamepad),
              events |-> Fired(g.events, Event.CONNECTED, d), ret |-> TRUE]

\* g is [gamepads, events]; the result adds ret, the return value
_connect(g, plat, d) ==
    LET type == _resolveControllerType(Devices[d].id)
        mapping == _getMapping(plat, type)
        zero == [c \in ButtonNames(mapping) \cup AxisNames(mapping) |-> 0]
        gamepad == [dev |-> d, index |-> Devices[d].index, type |-> type,
                    mapping |-> mapping, state |-> zero, lastState |-> zero,
                    downButtons |-> << >>, ticked |-> FALSE]
    IN  IF type = Type.UNSUPPORTED
        THEN [gamepads |-> g.gamepads,
              events |-> Fired(g.events, Event.UNSUPPORTED, d), ret |-> FALSE]
        ELSE IF mapping = NoMapping
        THEN [gamepads |-> g.gamepads,
              events |-> Fired(g.events, Event.UNSUPPORTED, d), ret |-> FALSE]
        ELSE [gamepads |-> ArrSet(g.gamepads, gamepad.index, gamepad),
              events |-> Fired(g.events, Event.CONNECTED, d), ret |-> TRUE]

\* delete this.gamepads[index]: the slot becomes a hole, the length stays
DeleteAt(arr, i) ==
    IF i + 1 \in DOMAIN arr THEN [arr EXCEPT ![i + 1] = Undefined] ELSE arr

\* the copy loop with newGamepads.push(gamepads[i]): the controllers are
\* packed to the front
CopyDefined_pushes(arr) == SelectSeq(arr, IsDefined)

\* _disconnect without the copy loop: the array keeps its length
CopyDefined_keepsLength(arr) == arr

\* the copy loop of _disconnect: newGamepads[i] = gamepads[i] for each
\* defined i, so the copy ends at the last defined slot
CopyDefined(arr) ==
    LET defined == {k \in DOMAIN arr : IsDefined(arr[k])}
        last == IF defined = {} THEN 0 ELSE CHOOSE k \in defined : \A j \in defined : j <= k
    IN  SubSeq(arr, 1, last)

_disconnect(g, d) ==
    LET index == Devices[d].index
        deleted == IF IsDefined(ArrGet(g.gamepads, index))
                   THEN DeleteAt(g.gamepads, index) ELSE g.gamepads
    IN  [gamepads |-> CopyDefined(deleted),
         events |-> Fired(g.events, Event.DISCONNECTED, d)]

count(arr) == Len(arr)

(***************************************************************************)
(* The polling source: WebKitPlatform.update                               *)
(***************************************************************************)

\* w is [gamepads, events, known]; first loop, i from known.length - 1 down
RECURSIVE WebKitForgetLoop(_, _, _)
WebKitForgetLoop(w, snapshot, i) ==
    IF i < 0 THEN w
    ELSE LET gamepad == w.known[i + 1]
             r == _disconnect([gamepads |-> w.gamepads, events |-> w.events], gamepad)
         IN  IF ~Includes(snapshot, gamepad)
             THEN WebKitForgetLoop([gamepads |-> r.gamepads, events |-> r.events,
                                    known |-> Splice1(w.known, i)], snapshot, i - 1)
             ELSE WebKitForgetLoop(w, snapshot, i - 1)

\* the second loop remembering a device only when _connect returned true
RECURSIVE WebKitDiscoverLoop_pushIfConnected(_, _, _, _)
WebKitDiscoverLoop_pushIfConnected(w, plat, snapshot, i) ==
    IF i >= Len(snapshot) THEN w
    ELSE LET gamepad == snapshot[i + 1]
             r == _connect([gamepads |-> w.gamepads, events |-> w.events], plat, gamepad)
         IN  IF gamepad # Null /\ ~Includes(w.known, gamepad)
             THEN WebKitDiscoverLoop_pushIfConnected(
                      [gamepads |-> r.gamepads, events |-> r.events,
                       known |-> IF r.ret THEN Append(w.known, gamepad) ELSE w.known],
                      plat, snapshot, i + 1)
             ELSE WebKitDiscoverLoop_pushIfConnected(w, plat, snapshot, i + 1)

\* the second loop without knownGamepads.push: a device is not remembered
RECURSIVE WebKitDiscoverLoop_noPush(_, _, _, _)
WebKitDiscoverLoop_noPush(w, plat, snapshot, i) ==
    IF i >= Len(snapshot) THEN w
    ELSE LET gamepad == snapshot[i + 1]
             r == _connect([gamepads |-> w.gamepads, events |-> w.events], plat, gamepad)
         IN  IF gamepad # Null /\ ~Includes(w.known, gamepad)
             THEN WebKitDiscoverLoop_noPush([gamepads |-> r.gamepads, events |-> r.events,
                                             known |-> w.known],
                                            plat, snapshot, i + 1)
             ELSE WebKitDiscoverLoop_noPush(w, plat, snapshot, i + 1)

\* second loop, i from 0 up over the snapshot
RECURSIVE WebKitDiscoverLoop(_, _, _, _)
WebKitDiscoverLoop(w, plat, snapshot, i) ==
    IF i >= Len(snapshot) THEN w
    ELSE LET gamepad == snapshot[i + 1]
             r == _connect([gamepads |-> w.gamepads, events |-> w.events], plat, gamepad)
         IN  IF gamepad # Null /\ ~Includes(w.known, gamepad)
             THEN WebKitDiscoverLoop([gamepads |-> r.gamepads, events |-> r.events,
                                      known |-> Append(w.known, gamepad)],
                                     plat, snapshot, i + 1)
             ELSE WebKitDiscoverLoop(w, plat, snapshot, i + 1)

WebKitUpdate(w, plat, snapshot) ==
    WebKitDiscoverLoop(WebKitForgetLoop(w, snapshot, Len(w.known) - 1),
                       plat, snapshot, 0)

\* this.platform.update(): a no-op on the Firefox and null platforms
PlatformUpdate(w, plat, snapshot) ==
    IF plat = "webkit" THEN WebKitUpdate(w, plat, snapshot) ELSE w

(***************************************************************************)
(* The update/diff engine: _update                                         *)
(***************************************************************************)

\* a derivation function of LOGITECH_FIREFOX.axes, applied to the raw device
DerivedAxis(fn, raw) ==
    IF fn = "LEFT_TRIGGER"
    THEN IF raw.axes[2] > 0
         THEN _applyDeadzoneMaximize(raw.axes[2], deadzone, maximizeThreshold) ELSE 0
    ELSE IF raw.axes[2] < 0
         THEN _applyDeadzoneMaximize(raw.axes[2] * (-1), deadzone, maximizeThreshold) ELSE 0

\* the buttons loop with the change test of the axes loop
ButtonPass_axisTest(u, i, entry, raw) ==
    LET controlName == entry.control
        value == raw.buttons[entry.index]
        isDown == value > 50
        lastDown == Includes(u.gamepad.downButtons, controlName)
        downBtnIndex == i
        data == [gamepad |-> u.gamepad.dev, mapping |-> entry, control |-> controlName]
        edge ==
            IF isDown # lastDown /\ value > 50
            THEN [events |-> Fired(u.events, Event.BUTTON_DOWN, data),
                  downButtons |-> Append(u.gamepad.downButtons, controlName)]
            ELSE IF isDown # lastDown /\ value < 50
            THEN [events |-> Fired(u.events, Event.BUTTON_UP, data),
                  downButtons |-> Splice1(u.gamepad.downButtons, downBtnIndex)]
            ELSE [events |-> u.events, downButtons |-> u.gamepad.downButtons]
        changed ==
            IF value # u.gamepad.lastState[controlName]
            THEN Fired(edge.events, Event.AXIS_CHANGED,
                       [gamepad |-> u.gamepad.dev, mapping |-> entry,
                        axis |-> controlName, value |-> value])
            ELSE edge.events
    IN  [gamepad |-> [u.gamepad EXCEPT !.state[controlName] = value,
                                       !.downButtons = edge.downButtons,
                                       !.lastState[controlName] = value],
         events |-> changed]

\* the buttons loop taking every button for released before the tick: a held
\* button is pushed again
ButtonPass_forgetsDown(u, i, entry, raw) ==
    LET controlName == entry.control
        value == raw.buttons[entry.index]
        isDown == value > 50
        lastDown == FALSE
        downBtnIndex == i
        data == [gamepad |-> u.gamepad.dev, mapping |-> entry, control |-> controlName]
        edge ==
            IF isDown # lastDown /\ value > 50
            THEN [events |-> Fired(u.events, Event.BUTTON_DOWN, data),
                  downButtons |-> Append(u.gamepad.downButtons, controlName)]
            ELSE IF isDown # lastDown /\ value < 50
            THEN [events |-> Fired(u.events, Event.BUTTON_UP, data),
                  downButtons |-> Splice1(u.gamepad.downButtons, downBtnIndex)]
            ELSE [events |-> u.events, downButtons |-> u.gamepad.downButtons]
        changed ==
            IF value # 0 /\ value # 100 /\ value # u.gamepad.lastState[controlName]
            THEN Fired(edge.events, Event.AXIS_CHANGED,
                       [gamepad |-> u.gamepad.dev, mapping |-> entry,
                        axis |-> controlName, value |-> value])
            ELSE edge.events
    IN  [gamepad |-> [u.gamepad EXCEPT !.state[controlName] = value,
                                       !.downButtons = edge.downButtons,
                                       !.lastState[controlName] = value],
         events |-> changed]

\* the body of the buttons loop for one control; u is [gamepad, events], i the
\* index of the gamepad in this.gamepads, raw the device's buttons and axes
ButtonPass(u, i, entry, raw) ==
    LET controlName == entry.control
        value == raw.buttons[entry.index]
        isDown == value > 50
        lastDown == Includes(u.gamepad.downButtons, controlName)
        downBtnIndex == i
        data == [gamepad |-> u.gamepad.dev, mapping |-> entry, control |-> controlName]
        edge ==
            IF isDown # lastDown /\ value > 50
            THEN [events |-> Fired(u.events, Event.BUTTON_DOWN, data),
                  downButtons |-> Append(u.gamepad.downButtons, controlName)]
            ELSE IF isDown # lastDown /\ value < 50
            THEN [events |-> Fired(u.events, Event.BUTTON_UP, data),
                  downButtons |-> Splice1(u.gamepad.downButtons, downBtnIndex)]
            ELSE [events |-> u.events, downButtons |-> u.gamepad.downButtons]
        changed ==
            IF value # 0 /\ value # 100 /\ value # u.gamepad.lastState[controlName]
            THEN Fired(edge.events, Event.AXIS_CHANGED,
                       [gamepad |-> u.gamepad.dev, mapping |-> entry,
                        axis |-> controlName, value |-> value])
            ELSE edge.events
    IN  [gamepad |-> [u.gamepad EXCEPT !.state[controlName] = value,
                                       !.downButtons = edge.downButtons,
                                       !.lastState[controlName] = value],
         events |-> changed]

\* the axes loop with the change test of the buttons loop
AxisPass_buttonTest(u, i, entry, raw) ==
    LET controlName == entry.control
        value == IF entry.fn # "index"
                 THEN DerivedAxis(entry.fn, raw)
                 ELSE _applyDeadzoneMaximize(raw.axes[entry.index], deadzone,
                                             maximizeThreshold)
        changed ==
            IF value # 0 /\ value # 100 /\ value # u.gamepad.lastState[controlName]
            THEN Fired(u.events, Event.AXIS_CHANGED,
                       [gamepad |-> u.gamepad.dev, mapping |-> entry,
                        axis |-> controlName, value |-> value])
            ELSE u.events
    IN  [gamepad |-> [u.gamepad EXCEPT !.state[controlName] = value,
                                       !.lastState[controlName] = value],
         events |-> changed]

\* the body of the axes loop for one control
AxisPass(u, i, entry, raw) ==
    LET controlName == entry.control
        value == IF entry.fn # "index"
                 THEN DerivedAxis(entry.fn, raw)
                 ELSE _applyDeadzoneMaximize(raw.axes[entry.index], deadzone,
                                             maximizeThreshold)
        changed ==
            IF value # u.gamepad.lastState[controlName]
            THEN Fired(u.events, Event.AXIS_CHANGED,
                       [gamepad |-> u.gamepad.dev, mapping |-> entry,
                        axis |-> controlName, value |-> value])
            ELSE u.events
    IN  [gamepad |-> [u.gamepad EXCEPT !.state[controlName] = value,
                                       !.lastState[controlName] = value],
         events |-> changed]

RECURSIVE ButtonsLoop(_, _, _, _, _)
ButtonsLoop(u, i, entries, raw, k) ==
    IF k > Len(entries) THEN u
    ELSE ButtonsLoop(ButtonPass(u, i, entries[k], raw), i, entries, raw, k + 1)

RECURSIVE AxesLoop(_, _, _, _, _)
AxesLoop(u, i, entries, raw, k) ==
    IF k > Len(entries) THEN u
    ELSE AxesLoop(AxisPass(u, i, entries[k], raw), i, entries, raw, k + 1)

\* one gamepad: all its buttons, then all its axes; ticked records that a
\* tick has read the device since it was connected
GamepadPass(gamepad, evs, i, raw) ==
    LET m == Mapping[gamepad.mapping]
        b == ButtonsLoop([gamepad |-> gamepad, events |-> evs], i, m.buttons, raw, 1)
        a == AxesLoop(b, i, m.axes, raw, 1)
    IN  [gamepad |-> [a.gamepad EXCEPT !.ticked = TRUE], events |-> a.events]

\* the loop over this.gamepads, holes skipped; g is [gamepads, events]
RECURSIVE GamepadsLoop(_, _, _)
GamepadsLoop(g, raws, i) ==
    IF i >= Len(g.gamepads) THEN g
    ELSE IF ~IsDefined(g.gamepads[i + 1]) THEN GamepadsLoop(g, raws, i + 1)
    ELSE LET r == GamepadPass(g.gamepads[i + 1], g.events, i, raws[i + 1])
         IN  GamepadsLoop([gamepads |-> [g.gamepads EXCEPT ![i + 1] = r.gamepad],
                           events |-> r.events], raws, i + 1)

\* the payload of TICK is the array this.gamepads itself, holes included;
\* each controller is shown by its device
TickPayload(arr) == [k \in DOMAIN arr |-> arr[k].dev]

\* the TICK event closing _update
TickFire(g) ==
    IF Len(g.gamepads) > 0
    THEN Fired(g.events, Event.TICK, TickPayload(g.gamepads))
    ELSE g.events

\* w is [gamepads, events, known]: the state after this.platform.update();
\* raws[i + 1] is what the device of slot i reports on this tick
_update(w, raws) ==
    LET g == GamepadsLoop([gamepads |-> w.gamepads, events |-> w.events], raws, 0)
    IN  [gamepads |-> g.gamepads, events |-> TickFire(g), known |-> w.known]

\* the raw values a device with this registry entry can report
NoRaw == [buttons |-> << >>, axes |-> << >>]

RawFor(entry) ==
    IF IsDefined(entry)
    THEN LET m == Mapping[entry.mapping]
         IN  [buttons : [{m.buttons[k].index : k \in DOMAIN m.buttons} -> ButtonValues],
              axes : [{m.axes[k].index : k \in DOMAIN m.axes} -> AxisValues]]
    ELSE {NoRaw}

\* one choice of raw values per slot, as an array indexed by slot
RECURSIVE RawChoicesFrom(_, _)
RawChoicesFrom(arr, s) ==
    IF s \notin Slots THEN {<< >>}
    ELSE {<< head >> \o tail : head \in RawFor(ArrGet(arr, s)),
                               tail \in RawChoicesFrom(arr, s + 1)}

RawChoices(arr) == RawChoicesFrom(arr, 0)

\* the raw values of a device whose axes rest and whose buttons are analog
FineButtonValues == {0, 30, 50, 70, 100}
RestingAxis == 2

FineRawFor(entry) ==
    IF IsDefined(entry)
    THEN LET m == Mapping[entry.mapping]
         IN  [buttons : [{m.buttons[k].index : k \in DOMAIN m.buttons} -> FineButtonValues],
              axes : [{m.axes[k].index : k \in DOMAIN m.axes} -> {RestingAxis}]]
    ELSE {NoRaw}

RECURSIVE FineRawChoicesFrom(_, _)
FineRawChoicesFrom(arr, s) ==
    IF s \notin Slots THEN {<< >>}
    ELSE {<< head >> \o tail : head \in FineRawFor(ArrGet(arr, s)),
                               tail \in FineRawChoicesFrom(arr, s + 1)}

FineRawChoices(arr) == FineRawChoicesFrom(arr, 0)

(***************************************************************************)
(* Operations of the engine and of its environment                         *)
(***************************************************************************)

HostKinds == {{}, {"addEventListener"}, {"webkitGetGamepads", "addEventListener"}}

NoPads == [k \in 1 .. Cardinality(Slots) |-> Null]

\* new ManualUpdateStrategy()
ManualUpdateStrategy == [kind |-> "manual", armed |-> 0]

\* new AnimFrameUpdateStrategy(): armed counts the calls of
\* requestAnimationFrame whose callback has not run yet
AnimFrameUpdateStrategy == [kind |-> "animFrame", armed |-> 0]

\* startTicker: requestAnimationFrame.apply(win, [tickFunction])
startTicker(strategy) == [strategy EXCEPT !.armed = @ + 1]

\* start calling startTicker whatever the strategy
start_alwaysArms(strategy) == startTicker(strategy)

\* updateStrategy.start(updateFunction); the assignment of this.update is
\* the variable started
start(strategy) ==
    IF strategy.kind = "animFrame" THEN startTicker(strategy) ELSE strategy

\* the engine is driven by hand: new Gamepad(new ManualUpdateStrategy())
InitRegistry ==
    /\ host \in HostKinds
    /\ deadzone = 3
    /\ maximizeThreshold = 97
    /\ platform = "null"
    /\ started = FALSE
    /\ updateStrategy = ManualUpdateStrategy
    /\ gamepads = << >>
    /\ hostPads = NoPads
    /\ knownGamepads = << >>
    /\ events = << >>
    /\ op = [name |-> "new"]
    /\ unmatched = {}

\* Gamepad.prototype.init, called once
GamepadInit ==
    /\ ~started
    /\ platform' = resolvePlatform(host)
    /\ started' = TRUE
    /\ updateStrategy' = start(updateStrategy)
    /\ events' = << >>
    /\ op' = [name |-> "init", ret |-> isSupported(resolvePlatform(host)),
              invoked |-> resolveLoop(host, [platform |-> "null", invoked |-> << >>],
                                      0).invoked]
    /\ UNCHANGED <<unmatched, deadzone, maximizeThreshold, host, gamepads, hostPads, knownGamepads, listeners, firing, invoked>>

\* a call of _connect(d): the MozGamepadConnected listener of the Firefox
\* platform, or a direct call of the listener interface; on the WebKit
\* platform the polling source, inside Tick, is the only caller
Connect(d) ==
    /\ platform # "webkit"
    /\ LET r == _connect([gamepads |-> gamepads, events |-> << >>], platform, d)
       IN  /\ gamepads' = r.gamepads
           /\ events' = r.events
           /\ op' = [name |-> "connect", dev |-> d, ret |-> r.ret,
                     vacated |-> IF op.name = "disconnect"
                                    /\ Devices[op.dev].index = Devices[d].index
                                 THEN op.removed ELSE Undefined]
    /\ UNCHANGED <<unmatched, deadzone, maximizeThreshold, host, platform, started, updateStrategy,
                   hostPads, knownGamepads,
                   listeners, firing, invoked>>

\* a call of _disconnect(d); removed remembers the entry the slot held, and
\* vacated, in the connect that directly follows at that slot, hands it on
Disconnect(d) ==
    /\ platform # "webkit"
    /\ LET r == _disconnect([gamepads |-> gamepads, events |-> << >>], d)
       IN  /\ gamepads' = r.gamepads
           /\ events' = r.events
           /\ op' = [name |-> "disconnect", dev |-> d,
                     removed |-> ArrGet(gamepads, Devices[d].index)]
    /\ UNCHANGED <<unmatched, deadzone, maximizeThreshold, host, platform, started, updateStrategy,
                   hostPads, knownGamepads,
                   listeners, firing, invoked>>

\* the host plugs device d in: the polled array shows it at its slot
HostPlug(d) ==
    /\ platform = "webkit"
    /\ hostPads[Devices[d].index + 1] # d
    /\ hostPads' = [hostPads EXCEPT ![Devices[d].index + 1] = d]
    /\ events' = << >>
    /\ op' = [name |-> "plug", dev |-> d]
    /\ UNCHANGED <<unmatched, deadzone, maximizeThreshold, host, platform, started, updateStrategy,
                   gamepads, knownGamepads,
                   listeners, firing, invoked>>

\* the host loses the device of slot s: the polled array shows null there
HostUnplug(s) ==
    /\ platform = "webkit"
    /\ hostPads[s + 1] # Null
    /\ hostPads' = [hostPads EXCEPT ![s + 1] = Null]
    /\ events' = << >>
    /\ op' = [name |-> "unplug", slot |-> s]
    /\ UNCHANGED <<unmatched, deadzone, maximizeThreshold, host, platform, started, updateStrategy,
                   gamepads, knownGamepads,
                   listeners, firing, invoked>>

\* var nullFunction = function() {}: w, [gamepads, events, known], is left
\* as it is
nullFunction(w) == w

\* a call of updateStrategy.update() before init(): the update of the
\* manual strategy is still nullFunction
NullUpdate ==
    /\ ~started
    /\ updateStrategy.kind = "manual"
    /\ LET r == nullFunction([gamepads |-> gamepads, events |-> << >>,
                              known |-> knownGamepads])
       IN  /\ gamepads' = r.gamepads
           /\ events' = r.events
           /\ knownGamepads' = r.known
    /\ op' = [name |-> "update"]
    /\ UNCHANGED <<unmatched, deadzone, maximizeThreshold, host, platform, started,
                   updateStrategy, hostPads, listeners, firing, invoked>>

\* one call of updateStrategy.update() by the application: _update
Tick ==
    /\ started
    /\ LET w == PlatformUpdate([gamepads |-> gamepads, events |-> << >>,
                                known |-> knownGamepads], platform, hostPads)
       IN  \E raws \in RawChoices(w.gamepads) :
               LET r == _update(w, raws)
               IN  /\ gamepads' = r.gamepads
                   /\ events' = r.events
                   /\ knownGamepads' = r.known
                   /\ op' = [name |-> "tick", raws |-> raws]
    /\ UNCHANGED <<unmatched, deadzone, maximizeThreshold, host, platform, started, updateStrategy,
                   hostPads, listeners, firing, invoked>>

Init ==
    /\ InitRegistry
    /\ listeners = << >>
    /\ firing = [active |-> FALSE, status |-> "none"]
    /\ invoked = << >>

Next ==
    \/ GamepadInit
    \/ \E d \in DeviceIds : Connect(d)
    \/ \E d \in DeviceIds : Disconnect(d)
    \/ \E d \in DeviceIds : HostPlug(d)
    \/ \E s \in Slots : HostUnplug(s)
    \/ NullUpdate
    \/ Tick

Spec == Init /\ [][Next]_vars

(***************************************************************************)
(* Analog buttons: the controllers with one button, read with finer values *)
(***************************************************************************)

AnalogDevices == {"padL0", "padP1"}

\* one call of updateStrategy.update(): _update over analog button values
AnalogTick ==
    /\ started
    /\ LET w == PlatformUpdate([gamepads |-> gamepads, events |-> << >>,
                                known |-> knownGamepads], platform, hostPads)
       IN  \E raws \in FineRawChoices(w.gamepads) :
               LET r == _update(w, raws)
               IN  /\ gamepads' = r.gamepads
                   /\ events' = r.events
                   /\ knownGamepads' = r.known
                   /\ op' = [name |-> "tick", raws |-> raws]
    /\ UNCHANGED <<unmatched, deadzone, maximizeThreshold, host, platform, started, updateStrategy,
                   hostPads, listeners, firing, invoked>>

NextAnalog ==
    \/ GamepadInit
    \/ \E d \in AnalogDevices : Connect(d)
    \/ AnalogTick

SpecAnalog == Init /\ [][NextAnalog]_vars

(***************************************************************************)
(* The event trace: a host that announces what it plugs and unplugs        *)
(***************************************************************************)

\* the devices left with an unmatched connected event after the _fire calls
\* evs, in order, when open were so before
RECURSIVE Unmatched(_, _)
Unmatched(open, evs) ==
    IF evs = << >> THEN open
    ELSE Unmatched(IF Head(evs).name = Event.CONNECTED
                   THEN open \cup {Head(evs).data}
                   ELSE IF Head(evs).name = Event.DISCONNECTED
                   THEN open \ {Head(evs).data}
                   ELSE open,
                   Tail(evs))

\* the raw values of a device nobody touches
RestRawFor(entry) ==
    IF IsDefined(entry)
    THEN LET m == Mapping[entry.mapping]
         IN  [buttons : [{m.buttons[k].index : k \in DOMAIN m.buttons} -> {0}],
              axes : [{m.axes[k].index : k \in DOMAIN m.axes} -> {RestingAxis}]]
    ELSE {NoRaw}

RECURSIVE RestRawChoicesFrom(_, _)
RestRawChoicesFrom(arr, s) ==
    IF s \notin Slots THEN {<< >>}
    ELSE {<< head >> \o tail : head \in RestRawFor(ArrGet(arr, s)),
                               tail \in RestRawChoicesFrom(arr, s + 1)}

RestRawChoices(arr) == RestRawChoicesFrom(arr, 0)

\* the host plugs device d into its free slot and dispatches
\* MozGamepadConnected: the listener of FirefoxPlatform calls _connect
MozGamepadConnected(d) ==
    /\ platform = "firefox"
    /\ hostPads[Devices[d].index + 1] = Null
    /\ hostPads' = [hostPads EXCEPT ![Devices[d].index + 1] = d]
    /\ LET r == _connect([gamepads |-> gamepads, events |-> << >>], platform, d)
       IN  /\ gamepads' = r.gamepads
           /\ events' = r.events
           /\ op' = [name |-> "connect", dev |-> d, ret |-> r.ret,
                     vacated |-> Undefined]
    /\ unmatched' = Unmatched(unmatched, events')
    /\ UNCHANGED <<deadzone, maximizeThreshold, host, platform, started, updateStrategy,
                   knownGamepads, listeners, firing, invoked>>

\* the host loses device d and dispatches MozGamepadDisconnected: the
\* listener of FirefoxPlatform calls _disconnect
MozGamepadDisconnected(d) ==
    /\ platform = "firefox"
    /\ hostPads[Devices[d].index + 1] = d
    /\ hostPads' = [hostPads EXCEPT ![Devices[d].index + 1] = Null]
    /\ LET r == _disconnect([gamepads |-> gamepads, events |-> << >>], d)
       IN  /\ gamepads' = r.gamepads
           /\ events' = r.events
           /\ op' = [name |-> "disconnect", dev |-> d,
                     removed |-> ArrGet(gamepads, Devices[d].index)]
    /\ unmatched' = Unmatched(unmatched, events')
    /\ UNCHANGED <<deadzone, maximizeThreshold, host, platform, started, updateStrategy,
                   knownGamepads, listeners, firing, invoked>>

\* one call of updateStrategy.update() while nobody touches a control
RestTick ==
    /\ started
    /\ LET w == PlatformUpdate([gamepads |-> gamepads, events |-> << >>,
                                known |-> knownGamepads], platform, hostPads)
       IN  \E raws \in RestRawChoices(w.gamepads) :
               LET r == _update(w, raws)
               IN  /\ gamepads' = r.gamepads
                   /\ events' = r.events
                   /\ knownGamepads' = r.known
                   /\ op' = [name |-> "tick", raws |-> raws]
    /\ unmatched' = Unmatched(unmatched, events')
    /\ UNCHANGED <<deadzone, maximizeThreshold, host, platform, started, updateStrategy,
                   hostPads, listeners, firing, invoked>>

NextTrace ==
    \/ GamepadInit
    \/ \E d \in DeviceIds : HostPlug(d)
    \/ \E s \in Slots : HostUnplug(s)
    \/ \E d \in DeviceIds : MozGamepadConnected(d)
    \/ \E d \in DeviceIds : MozGamepadDisconnected(d)
    \/ RestTick

SpecTrace == Init /\ [][NextTrace]_vars

(***************************************************************************)
(* The event dispatcher: bind, unbind, _fire                               *)
(***************************************************************************)

\* the most bindings the model keeps at one time, all channels together
MaxListeners == 3

Channels == {Event.CONNECTED, Event.TICK}
Handlers == {"h1", "h2", "h3"}
Payloads == {"d1", "d2"}

\* an argument left out of a call
Omitted == "undefined"

\* this.listeners is a function from the channels that have a key to the
\* sequence of their handlers; {} is the empty function
NoListeners == << >>

bind(table, event, listener) ==
    IF event \notin DOMAIN table
    THEN (event :> << listener >>) @@ table
    ELSE [table EXCEPT ![event] = Append(@, listener)]

\* the search loop of unbind run from the end: the last handler equal to
\* listener, or -1
FirstMatch_fromEnd(list, listener) ==
    IF Includes(list, listener)
    THEN (CHOOSE k \in DOMAIN list :
             /\ list[k] = listener
             /\ \A j \in DOMAIN list : list[j] = listener => j <= k) - 1
    ELSE -1

\* the position (from 0) of the first handler equal to listener, or -1
FirstMatch(list, listener) ==
    IF Includes(list, listener)
    THEN (CHOOSE k \in DOMAIN list :
             /\ list[k] = listener
             /\ \A j \in DOMAIN list : list[j] = listener => k <= j) - 1
    ELSE -1

\* unbind whose first branch empties only the channels that have a key,
\* instead of replacing the table, and clears nothing when handed no type
unbind_keepsTable(table, type, listener) ==
    IF type = Omitted
    THEN [listeners |-> table, ret |-> "undefined"]
    ELSE IF listener = Omitted
    THEN [listeners |-> (type :> << >>) @@ table, ret |-> "undefined"]
    ELSE IF type \notin DOMAIN table
    THEN [listeners |-> table, ret |-> "false"]
    ELSE IF FirstMatch(table[type], listener) >= 0
    THEN [listeners |-> [table EXCEPT ![type] =
                            Splice1(@, FirstMatch(table[type], listener))],
          ret |-> "true"]
    ELSE [listeners |-> table, ret |-> "false"]

\* the result is [listeners, ret]; ret is "undefined" where the code returns
\* nothing
unbind(table, type, listener) ==
    IF type = Omitted
    THEN [listeners |-> NoListeners, ret |-> "undefined"]
    ELSE IF listener = Omitted
    THEN [listeners |-> (type :> << >>) @@ table, ret |-> "undefined"]
    ELSE IF type \notin DOMAIN table
    THEN [listeners |-> table, ret |-> "false"]
    ELSE IF FirstMatch(table[type], listener) >= 0
    THEN [listeners |-> [table EXCEPT ![type] =
                            Splice1(@, FirstMatch(table[type], listener))],
          ret |-> "true"]
    ELSE [listeners |-> table, ret |-> "false"]

\* the handlers bound to a channel, none when the channel has no key
HandlersOf(table, c) == IF c \in DOMAIN table THEN table[c] ELSE << >>

Bindings(table) ==
    LET RECURSIVE Sum(_)
        Sum(S) == IF S = {} THEN 0
                  ELSE LET e == CHOOSE x \in S : TRUE
                       IN  Len(table[e]) + Sum(S \ {e})
    IN  Sum(DOMAIN table)

\* firing and invoked describe the _fire call in progress or, until the next
\* call on the dispatcher, the last one

\* the calls a caller, or a handler while it runs, can make on the dispatcher
BindCalls == [fn : {"bind"}, type : Channels, listener : Handlers]

UnbindCalls ==
    [fn : {"unbind"}, type : {Omitted}, listener : {Omitted}]
    \cup [fn : {"unbind"}, type : Channels, listener : Handlers \cup {Omitted}]

NoCall == [fn |-> "none", type |-> Omitted, listener |-> Omitted]

\* the listener table after a call
AfterCall(table, call) ==
    IF call.fn = "bind" THEN bind(table, call.type, call.listener)
    ELSE IF call.fn = "unbind" THEN unbind(table, call.type, call.listener).listeners
    ELSE table

CanCall(table, call) == call.fn = "bind" => Bindings(table) < MaxListeners

Idle == [active |-> FALSE, status |-> "none"]

InitDispatch ==
    /\ host = {}
    /\ deadzone = 3
    /\ maximizeThreshold = 97
    /\ platform = "null"
    /\ started = FALSE
    /\ updateStrategy = ManualUpdateStrategy
    /\ gamepads = << >>
    /\ hostPads = NoPads
    /\ knownGamepads = << >>
    /\ events = << >>
    /\ op = [name |-> "new"]
    /\ unmatched = {}
    /\ listeners = NoListeners
    /\ firing = Idle
    /\ invoked = << >>

\* bind(event, listener) called from outside a handler
Bind(event, listener) ==
    /\ ~firing.active
    /\ Bindings(listeners) < MaxListeners
    /\ listeners' = bind(listeners, event, listener)
    /\ op' = [name |-> "bind", type |-> event, listener |-> listener]
    /\ firing' = Idle
    /\ invoked' = << >>
    /\ UNCHANGED <<unmatched, deadzone, maximizeThreshold, host, platform, started, updateStrategy,
                   gamepads, hostPads, knownGamepads, events>>

\* unbind(), unbind(type) or unbind(type, listener) called from outside
Unbind(type, listener) ==
    /\ ~firing.active
    /\ listeners' = unbind(listeners, type, listener).listeners
    /\ op' = [name |-> "unbind", type |-> type, listener |-> listener,
              ret |-> unbind(listeners, type, listener).ret]
    /\ firing' = Idle
    /\ invoked' = << >>
    /\ UNCHANGED <<unmatched, deadzone, maximizeThreshold, host, platform, started, updateStrategy,
                   gamepads, hostPads, knownGamepads, events>>

\* _fire(event, data) is entered: no key for the channel returns at once
FireBegin(event, data) ==
    /\ ~firing.active
    /\ firing' = [active |-> event \in DOMAIN listeners,
                  status |-> IF event \in DOMAIN listeners THEN "running" ELSE "returned",
                  event |-> event, data |-> data, i |-> 0,
                  atBegin |-> IF event \in DOMAIN listeners THEN listeners[event] ELSE << >>,
                  touched |-> {}, cleared |-> FALSE, calls |-> {}]
    /\ invoked' = << >>
    /\ op' = [name |-> "fire", type |-> event, data |-> data]
    /\ UNCHANGED <<unmatched, deadzone, maximizeThreshold, host, platform, started, updateStrategy,
                   gamepads, hostPads, knownGamepads,
                   events, listeners>>

\* the loop test reads this.listeners[event].length: a TypeError when the
\* key is gone (a handler called unbind() with no arguments)
FireThrow ==
    /\ firing.active
    /\ firing.event \notin DOMAIN listeners
    /\ firing' = [firing EXCEPT !.active = FALSE, !.status = "threw"]
    /\ UNCHANGED <<unmatched, deadzone, maximizeThreshold, host, platform, started, updateStrategy,
                   gamepads, hostPads, knownGamepads,
                   events, op, listeners, invoked>>

\* the loop test fails: _fire returns
FireReturn ==
    /\ firing.active
    /\ firing.event \in DOMAIN listeners
    /\ firing.i >= Len(listeners[firing.event])
    /\ firing' = [firing EXCEPT !.active = FALSE, !.status = "returned"]
    /\ UNCHANGED <<unmatched, deadzone, maximizeThreshold, host, platform, started, updateStrategy,
                   gamepads, hostPads, knownGamepads,
                   events, op, listeners, invoked>>

\* one pass of the loop: handler i is applied to [data]; while it runs it
\* makes at most one call on the dispatcher; then i++
FireInvoke(call) ==
    /\ firing.active
    /\ firing.event \in DOMAIN listeners
    /\ firing.i < Len(listeners[firing.event])
    /\ CanCall(listeners, call)
    /\ invoked' = Append(invoked, [handler |-> listeners[firing.event][firing.i + 1],
                                   args |-> << firing.data >>])
    /\ listeners' = AfterCall(listeners, call)
    /\ firing' = [firing EXCEPT
           !.i = @ + 1,
           !.touched = IF call.fn # "none" /\ call.type = firing.event
                          /\ call.listener # Omitted
                       THEN @ \cup {call.listener} ELSE @,
           !.cleared = @ \/ (call.fn = "unbind" /\ call.listener = Omitted
                             /\ call.type \in {Omitted, firing.event}),
           !.calls = IF call.fn = "none" THEN @
                     ELSE @ \cup {IF call.listener # Omitted THEN call.fn
                                  ELSE IF call.type # Omitted THEN "unbindType"
                                  ELSE "unbindAll"}]
    /\ UNCHANGED <<unmatched, deadzone, maximizeThreshold, host, platform, started, updateStrategy,
                   gamepads, hostPads, knownGamepads,
                   events, op>>

NextDispatch ==
    \/ \E e \in Channels, h \in Handlers : Bind(e, h)
    \/ \E c \in UnbindCalls : Unbind(c.type, c.listener)
    \/ \E e \in Channels, d \in Payloads : FireBegin(e, d)
    \/ FireThrow
    \/ FireReturn
    \/ \E c \in BindCalls \cup UnbindCalls \cup {NoCall} : FireInvoke(c)

SpecDispatch == InitDispatch /\ [][NextDispatch]_vars

(***************************************************************************)
(* The self-scheduling update strategy                                     *)
(***************************************************************************)

\* new Gamepad(): the strategy defaults to AnimFrameUpdateStrategy.  The
\* application binds at most one handler, to tick, which may raise.
InitTicker ==
    /\ host \in {{}, {"addEventListener"}}
    /\ deadzone = 3
    /\ maximizeThreshold = 97
    /\ platform = "null"
    /\ started = FALSE
    /\ updateStrategy = AnimFrameUpdateStrategy
    /\ gamepads = << >>
    /\ hostPads = NoPads
    /\ knownGamepads = << >>
    /\ events = << >>
    /\ op = [name |-> "new"]
    /\ unmatched = {}
    /\ listeners = NoListeners
    /\ firing = Idle
    /\ invoked = << >>

BindTick ==
    /\ HandlersOf(listeners, Event.TICK) = << >>
    /\ Bind(Event.TICK, "h1")

\* the scheduler runs a pending callback, tickFunction: that.update(), then
\* that.startTicker().  TICK is the last statement of _update, so when its
\* handler raises the registry has been updated in full and the exception
\* leaves _update, update and tickFunction before startTicker is reached.
Frame(raise) ==
    /\ updateStrategy.armed > 0
    /\ LET w == PlatformUpdate([gamepads |-> gamepads, events |-> << >>,
                                known |-> knownGamepads], platform, hostPads)
       IN  \E raws \in RawChoices(w.gamepads) :
               LET r == _update(w, raws)
                   pending == [updateStrategy EXCEPT !.armed = @ - 1]
               IN  /\ raise => /\ Len(r.gamepads) > 0
                               /\ HandlersOf(listeners, Event.TICK) # << >>
                   /\ gamepads' = r.gamepads
                   /\ events' = r.events
                   /\ knownGamepads' = r.known
                   /\ updateStrategy' = IF raise THEN pending ELSE startTicker(pending)
                   /\ op' = [name |-> "frame", raws |-> raws, raised |-> raise]
    /\ UNCHANGED <<unmatched, deadzone, maximizeThreshold, host, platform, started, hostPads, listeners, firing, invoked>>

NextTicker ==
    \/ GamepadInit
    \/ \E d \in DeviceIds : Connect(d)
    \/ \E d \in DeviceIds : Disconnect(d)
    \/ BindTick
    \/ \E raise \in BOOLEAN : Frame(raise)

SpecTicker == InitTicker /\ [][NextTicker]_vars

(***************************************************************************)
(* Calls of _resolveControllerType and _getMapping on an instance, before  *)
(* and after init() has resolved the platform                              *)
(***************************************************************************)

NameFragments ==
    {"PlayStation", "Logitech", "Wireless Gamepad", "Xbox", "XBOX", "360",
     "Generic USB Joystick", " Controller"}

\* the device names of the environment, and every name of one or two fragments
Names ==
    {Devices[d].id : d \in DeviceIds}
    \cup {<< f >> : f \in NameFragments}
    \cup {<< f, g >> : f \in NameFragments, g \in NameFragments}

\* the values handed to _getMapping as a type: String|null
TypeValues == {Type.PLAYSTATION, Type.LOGITECH, Type.XBOX, Type.UNSUPPORTED, Null}

ResolveControllerType(id) ==
    /\ op' = [name |-> "_resolveControllerType", id |-> id,
              ret |-> _resolveControllerType(id)]
    /\ UNCHANGED <<unmatched, deadzone, maximizeThreshold, host, platform, started,
                   updateStrategy, gamepads, hostPads, knownGamepads, events,
                   listeners, firing, invoked>>

GetMapping(type) ==
    /\ op' = [name |-> "_getMapping", type |-> type,
              ret |-> _getMapping(platform, type)]
    /\ UNCHANGED <<unmatched, deadzone, maximizeThreshold, host, platform, started,
                   updateStrategy, gamepads, hostPads, knownGamepads, events,
                   listeners, firing, invoked>>

NextResolve ==
    \/ GamepadInit
    \/ \E id \in Names : ResolveControllerType(id)
    \/ \E type \in TypeValues : GetMapping(type)

SpecResolve == Init /\ [][NextResolve]_vars

(***************************************************************************)
(* Calls of _applyDeadzoneMaximize on an instance whose deadzone and       *)
(* maximizeThreshold the application has set                               *)
(***************************************************************************)

ShapeValues == {-100, -98, -97, -55, -20, -3, -2, 0, 2, 3, 20, 55, 97, 98, 100}

DeadzoneValues == {3, 60}

ThresholdValues == {-40, 50, 97}

\* an optional argument: << >> when the call omits it, << x >> when given
Optional(values) == {<< >>} \cup {<< x >> : x \in values}

\* typeof(arg) !== 'undefined' ? arg : field
OrField(arg, field) == IF arg = << >> THEN field ELSE arg[1]

\* the application assigns gamepad.deadzone and gamepad.maximizeThreshold
Configure(d, m) ==
    /\ deadzone' = d
    /\ maximizeThreshold' = m
    /\ op' = [name |-> "configure"]
    /\ UNCHANGED <<unmatched, host, platform, started, updateStrategy, gamepads, hostPads,
                   knownGamepads, events, listeners, firing, invoked>>

\* a call _applyDeadzoneMaximize(value[, deadzone[, maximizeThreshold]])
ApplyDeadzoneMaximize(value, d, m) ==
    /\ op' = [name |-> "_applyDeadzoneMaximize", value |-> value,
              deadzone |-> d, maximizeThreshold |-> m,
              ret |-> _applyDeadzoneMaximize(value, OrField(d, deadzone),
                                             OrField(m, maximizeThreshold))]
    /\ UNCHANGED <<unmatched, deadzone, maximizeThreshold, host, platform, started,
                   updateStrategy, gamepads, hostPads, knownGamepads, events,
                   listeners, firing, invoked>>

NextShape ==
    \/ \E d \in DeadzoneValues, m \in ThresholdValues : Configure(d, m)
    \/ \E value \in ShapeValues, d \in Optional(DeadzoneValues),
          m \in Optional(ThresholdValues) : ApplyDeadzoneMaximize(value, d, m)

SpecShape == InitDispatch /\ [][NextShape]_vars

(***************************************************************************)
(* Vocabulary of the properties                                            *)
(***************************************************************************)

\* the slots that hold a controller
Registered(arr) == {s \in Slots : IsDefined(ArrGet(arr, s))}

\* how many of the recorded _fire calls carry this event name
Fires(evs, name) == Cardinality({k \in DOMAIN evs : evs[k].name = name})

\* how many BUTTON_DOWN / BUTTON_UP calls name this device and control
ButtonFires(evs, name, d, control) ==
    Cardinality({k \in DOMAIN evs :
        /\ evs[k].name = name
        /\ evs[k].data.gamepad = d
        /\ evs[k].data.control = control})

\* how many connected / disconnected / unsupported calls carry this device
DeviceFires(evs, name, d) ==
    Cardinality({k \in DOMAIN evs : evs[k].name = name /\ evs[k].data = d})

\* the step is a tick, and slot s holds the same connected controller
\* before and after it
TickedOver(s) ==
    /\ op'.name = "tick"
    /\ IsDefined(ArrGet(gamepads, s))
    /\ IsDefined(ArrGet(gamepads', s))
    /\ ArrGet(gamepads, s).dev = ArrGet(gamepads', s).dev
    /\ DeviceFires(events', Event.CONNECTED, ArrGet(gamepads, s).dev) = 0

\* the raw value button entry b of slot s reports on the tick just taken
RawButton(s, b) == op'.raws[s + 1].buttons[b.index]

ButtonEntries(s) == 
    LET m == Mapping[ArrGet(gamepads, s).mapping]
    IN  {m.buttons[k] : k \in DOMAIN m.buttons}

(***************************************************************************)
(* The registry                                                            *)
(***************************************************************************)

\* C1: after any sequence of connects and disconnects, count() is the
\* number of controllers registered; empty slots are not counted.
CountIsNumberRegistered == count(gamepads) = Cardinality(Registered(gamepads))

\* C2: disconnecting a device whose slot is registered fires exactly one
\* disconnected event carrying that device, leaves no entry at the slot and
\* makes count() one less than before.
DisconnectTakesOneOffCount ==
    [][(op'.name = "disconnect"
        /\ IsDefined(ArrGet(gamepads, Devices[op'.dev].index)))
       => /\ Fires(events', Event.DISCONNECTED) = 1
          /\ DeviceFires(events', Event.DISCONNECTED, op'.dev) = 1
          /\ ~IsDefined(ArrGet(gamepads', Devices[op'.dev].index))
          /\ count(gamepads') = count(gamepads) - 1]_vars

\* C5: connecting a device whose name resolves to Unsupported, or whose
\* type has no mapping on the active source, fires exactly one unsupported
\* event carrying the device and no connected event, returns false and
\* leaves the registry and count() as they were.
UnsupportedConnectChangesNothing ==
    [][(op'.name = "connect"
        /\ (\/ _resolveControllerType(Devices[op'.dev].id) = Type.UNSUPPORTED
            \/ _getMapping(platform, _resolveControllerType(Devices[op'.dev].id))
                   = NoMapping))
       => /\ Len(events') = 1
          /\ DeviceFires(events', Event.UNSUPPORTED, op'.dev) = 1
          /\ Fires(events', Event.CONNECTED) = 0
          /\ op'.ret = FALSE
          /\ gamepads' = gamepads
          /\ count(gamepads') = count(gamepads)]_vars

\* a device without a mapping on the null platform was refused while another
\* controller stayed registered
UnsupportedConnectSeen ==
    /\ op.name = "connect"
    /\ op.dev = "padP1"
    /\ op.ret = FALSE
    /\ platform = "null"
    /\ Registered(gamepads) = {0}
    /\ Fires(events, Event.UNSUPPORTED) = 1

\* C6: connecting a device of a supported type with a mapping returns true,
\* fires exactly one connected event carrying the controller, registers it
\* at the device's slot, with currentState and previousState 0 for every
\* button and axis name of the mapping and downButtons empty.
SupportedConnectRegistersFresh ==
    (op.name = "connect"
     /\ _getMapping(platform, _resolveControllerType(Devices[op.dev].id)) # NoMapping)
    => LET mapping == _getMapping(platform, _resolveControllerType(Devices[op.dev].id))
           names == ButtonNames(mapping) \cup AxisNames(mapping)
           gamepad == ArrGet(gamepads, Devices[op.dev].index)
       IN  /\ op.ret = TRUE
           /\ Len(events) = 1
           /\ DeviceFires(events, Event.CONNECTED, op.dev) = 1
           /\ gamepad.dev = op.dev
           /\ gamepad.mapping = mapping
           /\ gamepad.state = [c \in names |-> 0]
           /\ gamepad.lastState = [c \in names |-> 0]
           /\ gamepad.downButtons = << >>

\* a Logitech device (buttons and axes) was connected on the Firefox
\* platform next to a controller of slot 1
SupportedConnectSeen ==
    /\ op.name = "connect"
    /\ op.dev = "padL0"
    /\ op.ret = TRUE
    /\ platform = "firefox"
    /\ Registered(gamepads) = {0, 1}

(***************************************************************************)
(* Button edges                                                            *)
(***************************************************************************)

\* C3: on the tick where a button's raw value goes from below 0.5 on the
\* previous tick to above 0.5, exactly one button-down is fired for it; on
\* the tick where it goes from above to below, exactly one button-up;
\* whatever the other buttons do.
EdgeFiresOnce ==
    [][\A s \in Slots :
        (TickedOver(s) /\ ArrGet(gamepads, s).ticked)
        => \A b \in ButtonEntries(s) :
               LET d == ArrGet(gamepads, s).dev
                   before == ArrGet(gamepads, s).state[b.control]
               IN  /\ (before < 50 /\ RawButton(s, b) > 50)
                          => ButtonFires(events', Event.BUTTON_DOWN, d, b.control) = 1
                   /\ (before > 50 /\ RawButton(s, b) < 50)
                          => ButtonFires(events', Event.BUTTON_UP, d, b.control) = 1]_vars

\* C4: a tick on which a button's value is exactly 0.5 fires neither
\* button-down nor button-up for it and leaves its membership in downButtons
\* as it was before the tick.
MidpointKeepsState ==
    [][\A s \in Slots :
        TickedOver(s)
        => \A b \in ButtonEntries(s) :
               LET d == ArrGet(gamepads, s).dev
               IN  RawButton(s, b) = 50
                   => /\ ButtonFires(events', Event.BUTTON_DOWN, d, b.control) = 0
                      /\ ButtonFires(events', Event.BUTTON_UP, d, b.control) = 0
                      /\ Includes(ArrGet(gamepads', s).downButtons, b.control)
                            <=> Includes(ArrGet(gamepads, s).downButtons, b.control)]_vars

(***************************************************************************)
(* The tick event                                                          *)
(***************************************************************************)

\* C7: a tick fires the tick event exactly once if a controller is
\* registered after the source update, and not at all otherwise; when fired
\* it is the last event of the tick.
TickFiresOnceAndLast ==
    op.name = "tick"
    => IF Registered(gamepads) # {}
       THEN /\ Fires(events, Event.TICK) = 1
            /\ events[Len(events)].name = Event.TICK
       ELSE Fires(events, Event.TICK) = 0

\* a tick with a hole at slot 0 and a controller at slot 1 fired a button
\* event and then tick
TickAfterButtonSeen ==
    /\ op.name = "tick"
    /\ Registered(gamepads) = {1}
    /\ Len(events) = 2
    /\ events[1].name = Event.BUTTON_DOWN
    /\ events[2].name = Event.TICK

\* C8: the payload of tick is the collection of exactly the registered
\* controllers in ascending slot order, gaps excluded: one entry per
\* controller, no entry and no length for an empty slot.
TickPayloadHasNoGaps ==
    \A k \in DOMAIN events :
        (op.name = "tick" /\ events[k].name = Event.TICK)
        => /\ Len(events[k].data) = Cardinality(Registered(gamepads))
           /\ \A j \in DOMAIN events[k].data : events[k].data[j] # Undefined.dev
           /\ \A s \in Registered(gamepads) :
                  Includes(events[k].data, ArrGet(gamepads, s).dev)

(***************************************************************************)
(* The dispatcher                                                          *)
(***************************************************************************)

\* the handlers of a list that satisfy keep, in order
RECURSIVE Kept(_, _)
Kept(list, keep) ==
    IF list = << >> THEN << >>
    ELSE (IF Head(list) \in keep THEN << Head(list) >> ELSE << >>)
         \o Kept(Tail(list), keep)

InvokedHandlers == [k \in DOMAIN invoked |-> invoked[k].handler]

\* the handlers whose bindings on the firing channel no handler touched
Untouched == IF firing.cleared THEN {} ELSE Handlers \ firing.touched

\* C9: fire(eventName, payload) invokes every handler bound to the channel
\* exactly once per binding, in binding order, each with the single payload
\* argument, and no handler of another channel.
FireInvokesEachBindingOnce ==
    firing.status = "returned"
    => /\ \A k \in DOMAIN invoked :
              /\ invoked[k].args = << firing.data >>
              /\ \/ Includes(firing.atBegin, invoked[k].handler)
                 \/ invoked[k].handler \in firing.touched
       /\ Kept(InvokedHandlers, Untouched) = Kept(firing.atBegin, Untouched)

\* C10: if, while channel C fires, a handler unbinds itself or another
\* handler of C with unbind(C, handler), every other handler bound to C when
\* the fire began and not unbound is still invoked exactly once.
UnbindInFireSkipsNobody ==
    (firing.status = "returned" /\ firing.calls = {"unbind"} /\ firing.touched # {})
    => \A h \in Handlers \ firing.touched :
           Len(Kept(InvokedHandlers, {h})) = Len(Kept(firing.atBegin, {h}))

\* the step is a call of bind on channel c, from outside or from a handler
BindOn(c) == \E h \in Handlers : listeners' = bind(listeners, c, h)

\* the step invokes a handler for channel c
InvokedOn(c) == Len(invoked') > Len(invoked) /\ firing.event = c

\* the step is a call of unbind() with no arguments, from outside or from a
\* handler
UnbindAllCalled ==
    \/ op'.name = "unbind" /\ op'.type = Omitted /\ ~firing'.active
    \/ /\ firing.active
       /\ firing'.active
       /\ "unbindAll" \in firing'.calls
       /\ "unbindAll" \notin firing.calls

\* C11: after unbind() with no arguments every channel has zero bound
\* handlers, and a channel with zero bound handlers stays so, and no handler
\* is invoked for it, until a bind on that channel.
UnbindAllSilences ==
    [][/\ UnbindAllCalled => \A c \in Channels : HandlersOf(listeners', c) = << >>
       /\ \A c \in Channels :
              (HandlersOf(listeners, c) = << >> /\ ~BindOn(c))
              => /\ HandlersOf(listeners', c) = << >>
                 /\ ~InvokedOn(c)]_vars

\* the first of two handlers called unbind() while the channel fired: the
\* table is empty and the second handler was not invoked
UnbindAllInFireSeen ==
    /\ firing.status = "threw"
    /\ Len(firing.atBegin) >= 2
    /\ Len(invoked) = 1
    /\ firing.calls = {"unbindAll"}
    /\ listeners = NoListeners

\* the list without its first occurrence of h
RECURSIVE WithoutFirst(_, _)
WithoutFirst(list, h) ==
    IF list = << >> THEN << >>
    ELSE IF Head(list) = h THEN Tail(list)
    ELSE << Head(list) >> \o WithoutFirst(Tail(list), h)

\* C12: unbind(channel, handler) removes only the first binding of the
\* handler on the channel and returns true; when the handler is not bound
\* there, or the channel never was bound, it returns false; the other
\* bindings of the channel keep their order and the other channels are
\* unchanged.
UnbindRemovesFirstOnly ==
    [][(op'.name = "unbind" /\ op'.type # Omitted /\ op'.listener # Omitted)
       => /\ IF Includes(HandlersOf(listeners, op'.type), op'.listener)
             THEN /\ op'.ret = "true"
                  /\ listeners'[op'.type]
                        = WithoutFirst(listeners[op'.type], op'.listener)
             ELSE /\ op'.ret = "false"
                  /\ listeners' = listeners
          /\ DOMAIN listeners' = DOMAIN listeners
          /\ \A c \in DOMAIN listeners :
                 c # op'.type => listeners'[c] = listeners[c]]_vars

\* a handler bound twice around another lost its first binding only
UnbindOfDuplicateSeen ==
    /\ op.name = "unbind"
    /\ op.listener = "h1"
    /\ op.ret = "true"
    /\ op.type = Event.CONNECTED
    /\ listeners[Event.CONNECTED] = << "h2", "h1" >>

(***************************************************************************)
(* The update strategy                                                     *)
(***************************************************************************)

\* C13: with the animation-frame strategy every tick that runs is followed
\* by exactly one re-arm of the tick callback, so that a next tick is
\* pending, also after a tick in which a bound handler raised an exception.
TickRearmsOnce ==
    [][op'.name = "frame"
       => /\ updateStrategy'.armed = updateStrategy.armed - 1 + 1
          /\ updateStrategy'.armed > 0]_vars

(***************************************************************************)
(* The polling source                                                      *)
(***************************************************************************)

\* the calls of the connect callback for d among the recorded events: each
\* call of _connect fires connected or unsupported once
ConnectCalls(evs, d) ==
    DeviceFires(evs, Event.CONNECTED, d) + DeviceFires(evs, Event.UNSUPPORTED, d)

DisconnectCalls(evs, d) == DeviceFires(evs, Event.DISCONNECTED, d)

\* C14: under the polling source a tick calls the connect callback exactly
\* once for a device its snapshot shows and the previous snapshot did not,
\* the disconnect callback exactly once for a device the previous snapshot
\* showed and this one does not, neither for a device whose presence is
\* unchanged, and never for an absent (null) entry.  knownGamepads holds,
\* after each tick, the devices of that tick's snapshot.
PollCallsOncePerTransition ==
    [][(op'.name = "tick" /\ platform = "webkit")
       => /\ \A d \in DeviceIds :
                 LET now == Includes(hostPads, d)
                     before == Includes(knownGamepads, d)
                 IN  /\ ConnectCalls(events', d) = IF now /\ ~before THEN 1 ELSE 0
                     /\ DisconnectCalls(events', d) = IF before /\ ~now THEN 1 ELSE 0
          /\ ConnectCalls(events', Null) = 0
          /\ DisconnectCalls(events', Null) = 0
          /\ {knownGamepads'[k] : k \in DOMAIN knownGamepads'}
                = {hostPads[k] : k \in DOMAIN hostPads} \ {Null}
          /\ Len(knownGamepads') = Cardinality({knownGamepads'[k] : k \in DOMAIN knownGamepads'})]_vars

\* between two ticks the device of slot 0 was replaced by another while the
\* device of slot 1 stayed: one disconnect, one connect, nothing for slot 1
SlotReplacedBetweenTicksSeen ==
    /\ op.name = "tick"
    /\ platform = "webkit"
    /\ hostPads = << "padL0", "padP1" >>
    /\ Len(events) = 3
    /\ events[1].name = Event.DISCONNECTED
    /\ events[2].name = Event.CONNECTED
    /\ DisconnectCalls(events, "padX0") = 1
    /\ ConnectCalls(events, "padL0") = 1
    /\ events[3].name = Event.TICK

(***************************************************************************)
(* Source resolution                                                       *)
(***************************************************************************)

\* what makes each source qualify on a host
Qualifies(kind, h) ==
    IF kind = "webkit" THEN "webkitGetGamepads" \in h ELSE "addEventListener" \in h

\* C15: init() invokes the source factories in list order up to and
\* including the first whose source is supported and no later one, adopts
\* that source and returns true; when none is supported every factory was
\* invoked, the null source is active and init() returns false.
InitAdoptsFirstSupported ==
    op.name = "init"
    => LET qualified == {k \in DOMAIN FactoryNames : Qualifies(FactoryNames[k], host)}
       IN  IF qualified = {}
           THEN /\ platform = "null"
                /\ op.ret = FALSE
                /\ op.invoked = FactoryNames
           ELSE LET first == CHOOSE k \in qualified : \A j \in qualified : k <= j
                IN  /\ platform = FactoryNames[first]
                    /\ op.ret = TRUE
                    /\ op.invoked = SubSeq(FactoryNames, 1, first)

\* on a host that offers both interfaces the polling source was adopted
\* and the factory of the event-driven source was not invoked
SecondFactorySkippedSeen ==
    /\ op.name = "init"
    /\ host = {"webkitGetGamepads", "addEventListener"}
    /\ platform = "webkit"
    /\ op.invoked = << "webkit" >>
    /\ op.ret = TRUE

(***************************************************************************)
(* Shaping                                                                 *)
(***************************************************************************)

\* the deadzone and the threshold in effect in the recorded call
ShapeDeadzone == OrField(op.deadzone, deadzone)

ShapeThreshold == OrField(op.maximizeThreshold, maximizeThreshold)

\* C17: for every value v and every pair (deadzone d, maximizeThreshold m),
\* v > m implies shape(v, d, m) = 1 and v < -m implies shape(v, d, m) = -1.
ShapeMaximizesForEveryPair ==
    op.name = "_applyDeadzoneMaximize"
    => /\ op.value > ShapeThreshold => op.ret = 100
       /\ op.value < -ShapeThreshold => op.ret = -100

\* C17 as amended: the same for every pair with deadzone <= maximizeThreshold
\* and maximizeThreshold >= 0.
ShapeMaximizesForOrderedPair ==
    (/\ op.name = "_applyDeadzoneMaximize"
     /\ ShapeDeadzone <= ShapeThreshold
     /\ ShapeThreshold >= 0)
    => /\ op.value > ShapeThreshold => op.ret = 100
       /\ op.value < -ShapeThreshold => op.ret = -100

\* a value below minus the threshold handed to the call was shaped to -1
NegativeMaximizedSeen ==
    /\ op.name = "_applyDeadzoneMaximize"
    /\ op.value = -55
    /\ op.deadzone = << 3 >>
    /\ op.maximizeThreshold = << 50 >>
    /\ op.ret = -100

\* the piecewise function of the claim, cases in the order stated
ShapeReference(v, d, m) ==
    CASE v >= 0 /\ v < d -> 0
      [] v >= 0 /\ ~(v < d) /\ v > m -> 100
      [] v < 0 /\ v > -d -> 0
      [] v < 0 /\ ~(v > -d) /\ v < -m -> -100
      [] OTHER -> v

\* C18: shape(value, deadzone, maximizeThreshold) is the reference
\* piecewise function, an omitted argument taking the instance's current
\* deadzone or maximizeThreshold; with the defaults 0.03 and 0.97,
\* shape(0) = 0, shape(1) = 1 and shape(-1) = -1.
ShapeIsPiecewiseReference ==
    op.name = "_applyDeadzoneMaximize"
    => /\ op.ret = ShapeReference(op.value,
                      IF op.deadzone = << >> THEN deadzone ELSE op.deadzone[1],
                      IF op.maximizeThreshold = << >> THEN maximizeThreshold
                      ELSE op.maximizeThreshold[1])
       /\ (/\ op.deadzone = << >> /\ op.maximizeThreshold = << >>
           /\ deadzone = 3 /\ maximizeThreshold = 97
           /\ op.value \in {0, 100, -100})
          => op.ret = op.value

\* the instance's deadzone was set to 0.6 and a call without optional
\* arguments shaped 0.55 to 0
CurrentDeadzoneUsedSeen ==
    /\ op.name = "_applyDeadzoneMaximize"
    /\ op.value = 55
    /\ op.deadzone = << >>
    /\ op.maximizeThreshold = << >>
    /\ deadzone = 60
    /\ maximizeThreshold = 97
    /\ op.ret = 0

(***************************************************************************)
(* Mapping and type resolution                                             *)
(***************************************************************************)

\* C16: type Xbox resolves to the XBOX mapping whatever the active source,
\* the null source included; on the Firefox source Logitech resolves to
\* LOGITECH_FIREFOX and Playstation to PLAYSTATION_FIREFOX, on the WebKit
\* source to LOGITECH_WEBKIT and PLAYSTATION_WEBKIT; every other pair of
\* type and source resolves to absent.
MappingResolvesByTypeAndSource ==
    op.name = "_getMapping"
    => op.ret =
         CASE op.type = "xbox" -> "XBOX"
           [] op.type = "logitech" /\ platform = "firefox" -> "LOGITECH_FIREFOX"
           [] op.type = "playstation" /\ platform = "firefox" -> "PLAYSTATION_FIREFOX"
           [] op.type = "logitech" /\ platform = "webkit" -> "LOGITECH_WEBKIT"
           [] op.type = "playstation" /\ platform = "webkit" -> "PLAYSTATION_WEBKIT"
           [] OTHER -> NoMapping

\* on a host without any gamepad interface, after init(), Xbox still
\* resolved to the XBOX mapping
XboxOnNullSourceSeen ==
    /\ op.name = "_getMapping"
    /\ started
    /\ platform = "null"
    /\ op.type = Type.XBOX
    /\ op.ret = "XBOX"

\* the tests of type resolution, in order: a type and its needles
TypeNeedles ==
    << [type |-> "playstation", needles |-> {"playstation"}],
       [type |-> "logitech", needles |-> {"logitech", "wireless gamepad"}],
       [type |-> "xbox", needles |-> {"xbox", "360"}] >>

\* the lower-cased name contains the needle
Contains(id, needle) == \E k \in DOMAIN id : toLowerCase(id[k]) = needle

\* C19: resolveType lower-cases the name and returns the first match in the
\* order playstation; logitech or wireless gamepad; xbox or 360; otherwise
\* Unsupported, so that a name with substrings of several types resolves to
\* the earliest type of that order.  The four example names resolve to
\* Playstation, Logitech, Xbox and Unsupported.
TypeIsFirstMatchInOrder ==
    op.name = "_resolveControllerType"
    => LET matching == {k \in DOMAIN TypeNeedles :
                           \E n \in TypeNeedles[k].needles : Contains(op.id, n)}
       IN  /\ op.ret = IF matching = {} THEN "unsupported"
                       ELSE TypeNeedles[CHOOSE k \in matching :
                                           \A j \in matching : k <= j].type
           /\ op.id = << "Sony ", "PlayStation", "(R)3 Controller" >>
                  => op.ret = "playstation"
           /\ op.id = << "Logitech", " Dual Action" >> => op.ret = "logitech"
           /\ op.id = << "Xbox", " ", "360", " Controller" >> => op.ret = "xbox"
           /\ op.id = << "Generic USB Joystick" >> => op.ret = "unsupported"

\* a name with an upper-case Xbox substring before a Logitech substring
\* resolved to Logitech
SeveralTypesInNameSeen ==
    /\ op.name = "_resolveControllerType"
    /\ op.id = << "XBOX", "Logitech" >>
    /\ op.ret = Type.LOGITECH

(***************************************************************************)
(* Axes                                                                    *)
(***************************************************************************)

\* the axis-changed calls that name this device and axis
AxisFires(evs, d, axis) ==
    {k \in DOMAIN evs :
        /\ evs[k].name = Event.AXIS_CHANGED
        /\ evs[k].data.gamepad = d
        /\ evs[k].data.axis = axis}

\* C20: for an axis mapped by plain index a tick fires axis-changed exactly
\* once, carrying the new shaped value, when that value differs from the
\* one computed for the axis on the previous tick (0 on the first tick after
\* connect), and not at all when it is equal; changes to and from exactly
\* 0, 1 and -1 are no exception.
PlainAxisFiresOnChange ==
    [][\A s \in Slots :
        (op'.name = "tick" /\ IsDefined(ArrGet(gamepads', s)))
        => LET after == ArrGet(gamepads', s)
               d == after.dev
               fresh == DeviceFires(events', Event.CONNECTED, d) > 0
               m == Mapping[after.mapping]
           IN  \A k \in DOMAIN m.axes :
                   m.axes[k].fn = "index"
                   => LET axis == m.axes[k].control
                          previous == IF fresh THEN 0
                                      ELSE ArrGet(gamepads, s).state[axis]
                          value == ShapeReference(op'.raws[s + 1].axes[m.axes[k].index],
                                                  deadzone, maximizeThreshold)
                          fires == AxisFires(events', d, axis)
                      IN  /\ after.state[axis] = value
                          /\ Cardinality(fires) = IF value # previous THEN 1 ELSE 0
                          /\ \A e \in fires : events'[e].data.value = value]_vars

\* a tick fired axis-changed with the value exactly 0 for the stick of the
\* Logitech controller: the stick came back into the deadzone
AxisBackToZeroSeen ==
    /\ op.name = "tick"
    /\ platform = "webkit"
    /\ IsDefined(ArrGet(gamepads, 0))
    /\ ArrGet(gamepads, 0).dev = "padL0"
    /\ \E e \in AxisFires(events, "padL0", "LEFT_STICK_X") : events[e].data.value = 0

(***************************************************************************)
(* Slots                                                                   *)
(***************************************************************************)

\* the control names of a registered controller's mapping
ControlNames(entry) == ButtonNames(entry.mapping) \cup AxisNames(entry.mapping)

\* C21: a successful connect at a slot that a disconnect has emptied yields
\* a controller whose currentState and previousState are 0 for every
\* control and whose downButtons is empty, whatever the previous occupant
\* held at its disconnect.
ReconnectIsFresh ==
    [][(/\ op'.name = "connect"
        /\ op'.ret = TRUE
        /\ ~IsDefined(ArrGet(gamepads, Devices[op'.dev].index)))
       => LET entry == ArrGet(gamepads', Devices[op'.dev].index)
          IN  /\ entry.dev = op'.dev
              /\ DOMAIN entry.state = ControlNames(entry)
              /\ DOMAIN entry.lastState = ControlNames(entry)
              /\ \A c \in ControlNames(entry) :
                     entry.state[c] = 0 /\ entry.lastState[c] = 0
              /\ entry.downButtons = << >>]_vars

\* the Xbox controller was disconnected from slot 0 with a button held and
\* a non-zero value, and the Logitech device connected there next is fresh
ReconnectAfterHeldButtonSeen ==
    /\ op.name = "connect"
    /\ op.dev = "padL0"
    /\ op.ret = TRUE
    /\ IsDefined(op.vacated)
    /\ op.vacated.dev = "padX0"
    /\ op.vacated.downButtons # << >>
    /\ \E c \in DOMAIN op.vacated.state : op.vacated.state[c] # 0
    /\ ArrGet(gamepads, 0).downButtons = << >>

\* C22: disconnect(rawDevice) changes no slot other than the device's own:
\* a controller registered at another slot stays at that slot with the
\* same currentState, previousState and downButtons, and an empty slot
\* stays empty.
DisconnectLeavesOtherSlots ==
    [][op'.name = "disconnect"
       => \A s \in Slots \ {Devices[op'.dev].index} :
              ArrGet(gamepads', s) = ArrGet(gamepads, s)]_vars

\* the controller of slot 0 was disconnected while the one of slot 1 had a
\* button held
DisconnectBesideHeldButtonSeen ==
    /\ op.name = "disconnect"
    /\ Devices[op.dev].index = 0
    /\ IsDefined(op.removed)
    /\ ~IsDefined(ArrGet(gamepads, 0))
    /\ IsDefined(ArrGet(gamepads, 1))
    /\ ArrGet(gamepads, 1).downButtons # << >>

(***************************************************************************)
(* Invariants of the registry                                              *)
(***************************************************************************)

\* C23: in every reachable state every controller present in the registry
\* has a type other than Unsupported and a mapping that is not null.
RegisteredAreSupportedAndMapped ==
    \A s \in Registered(gamepads) :
        /\ ArrGet(gamepads, s).type # Type.UNSUPPORTED
        /\ ArrGet(gamepads, s).mapping # NoMapping

\* the polling source has seen a supported and an unsupported device; only
\* the supported one is registered
UnsupportedBesideRegisteredSeen ==
    /\ op.name = "tick"
    /\ hostPads = << "padX0", "padG1" >>
    /\ Includes(knownGamepads, "padG1")
    /\ Registered(gamepads) = {0}

\* C24: for every registered controller, from its connect to its
\* disconnect and after any number of ticks, currentState and previousState
\* each have exactly the button names and the axis names of its mapping as
\* keys.
StateKeysAreMappingNames ==
    \A s \in Registered(gamepads) :
        LET entry == ArrGet(gamepads, s)
            names == {Mapping[entry.mapping].buttons[k].control :
                         k \in DOMAIN Mapping[entry.mapping].buttons}
                     \cup {Mapping[entry.mapping].axes[k].control :
                               k \in DOMAIN Mapping[entry.mapping].axes}
        IN  /\ DOMAIN entry.state = names
            /\ DOMAIN entry.lastState = names

\* a controller with a button and an axis has been through a tick that
\* changed both
KeysAfterTickSeen ==
    /\ op.name = "tick"
    /\ IsDefined(ArrGet(gamepads, 0))
    /\ ArrGet(gamepads, 0).mapping = "LOGITECH_WEBKIT"
    /\ ArrGet(gamepads, 0).ticked
    /\ ArrGet(gamepads, 0).state["A"] # 0
    /\ ArrGet(gamepads, 0).state["LEFT_STICK_X"] # 0

(***************************************************************************)
(* Unsupported devices under the polling source                            *)
(***************************************************************************)

\* the button and axis events that name this device
ControlFires(evs, d) ==
    {k \in DOMAIN evs :
        /\ evs[k].name \in {Event.BUTTON_DOWN, Event.BUTTON_UP, Event.AXIS_CHANGED}
        /\ evs[k].data.gamepad = d}

\* C25: under the polling source an unsupported device that stays present
\* over consecutive ticks causes one unsupported event, on the tick that
\* first shows it, and none on the following ticks; it is never registered
\* and no button, axis or connected event names it on any of those ticks.
\* A device is in knownGamepads exactly when the previous tick showed it.
UnsupportedReportedOnce ==
    [][(op'.name = "tick" /\ platform = "webkit")
       => \A d \in DeviceIds :
           /\ Includes(knownGamepads', d) <=> Includes(hostPads, d)
           /\ (/\ Includes(hostPads, d)
               /\ \/ _resolveControllerType(Devices[d].id) = Type.UNSUPPORTED
                  \/ _getMapping(platform, _resolveControllerType(Devices[d].id))
                        = NoMapping)
              => /\ DeviceFires(events', Event.UNSUPPORTED, d)
                       = IF Includes(knownGamepads, d) THEN 0 ELSE 1
                 /\ DeviceFires(events', Event.CONNECTED, d) = 0
                 /\ ControlFires(events', d) = {}
                 /\ \A s \in Registered(gamepads') : ArrGet(gamepads', s).dev # d]_vars

\* a tick after the one that reported the unsupported device: the device
\* is still shown, the tick fired for the registered controller only
UnsupportedStaysQuietSeen ==
    /\ op.name = "tick"
    /\ platform = "webkit"
    /\ hostPads = << "padL0", "padG1" >>
    /\ Includes(knownGamepads, "padG1")
    /\ Fires(events, Event.UNSUPPORTED) = 0
    /\ Fires(events, Event.CONNECTED) = 0
    /\ Fires(events, Event.TICK) = 1
    /\ Registered(gamepads) = {0}

(***************************************************************************)
(* The manual update strategy                                              *)
(***************************************************************************)

\* C26: with the manual update strategy init() runs no tick and schedules
\* nothing; a call of the strategy's update() before init() does nothing;
\* after init() each call of update() runs exactly one full tick and does
\* not schedule another.
ManualStrategyTicksOnCall ==
    [][/\ op'.name = "init"
          => /\ gamepads' = gamepads
             /\ knownGamepads' = knownGamepads
             /\ events' = << >>
             /\ updateStrategy'.armed = 0
       /\ op'.name = "update"
          => /\ ~started'
             /\ gamepads' = gamepads
             /\ knownGamepads' = knownGamepads
             /\ platform' = platform
             /\ events' = << >>
             /\ updateStrategy'.armed = 0
       /\ op'.name = "tick"
          => /\ started
             /\ updateStrategy'.armed = 0
             /\ Fires(events', Event.TICK) = IF Registered(gamepads') = {} THEN 0 ELSE 1
             /\ \A s \in Registered(gamepads') : ArrGet(gamepads', s).ticked]_vars

\* update() was called before init() with a controller registered: no
\* event was fired and the controller has not been read
UpdateBeforeInitSeen ==
    /\ op.name = "update"
    /\ ~started
    /\ Registered(gamepads) = {0}
    /\ ~ArrGet(gamepads, 0).ticked
    /\ events = << >>
    /\ updateStrategy = ManualUpdateStrategy

(***************************************************************************)
(* downButtons                                                             *)
(***************************************************************************)

\* the names held in a downButtons list
Held(list) == {list[k] : k \in DOMAIN list}

\* C27: on a tick where button-up is fired for button b of a controller, b
\* and only b is removed from that controller's downButtons: every other
\* name that was in it before the tick is still in it afterwards, whatever
\* the slot and however many buttons are held.
ButtonUpRemovesOnlyThatButton ==
    [][\A s \in Slots :
        TickedOver(s)
        => LET d == ArrGet(gamepads, s).dev
               before == Held(ArrGet(gamepads, s).downButtons)
               after == Held(ArrGet(gamepads', s).downButtons)
               released == {b.control : b \in {e \in ButtonEntries(s) :
                               ButtonFires(events', Event.BUTTON_UP, d, e.control) > 0}}
           IN  /\ released \cap after = {}
               /\ (released # {}) => (before \ released) \subseteq after]_vars

\* C28: on a tick where a button's value is on the same side of 0.5 as on
\* the previous tick (above on both, or below on both), neither button-down
\* nor button-up is fired for it, whatever the slot and whatever the other
\* buttons do.
SameSideFiresNoEdge ==
    [][\A s \in Slots :
        (TickedOver(s) /\ ArrGet(gamepads, s).ticked)
        => \A b \in ButtonEntries(s) :
               LET d == ArrGet(gamepads, s).dev
                   before == ArrGet(gamepads, s).state[b.control]
               IN  \/ (before > 50 /\ RawButton(s, b) > 50)
                   \/ (before < 50 /\ RawButton(s, b) < 50)
                   => /\ ButtonFires(events', Event.BUTTON_DOWN, d, b.control) = 0
                      /\ ButtonFires(events', Event.BUTTON_UP, d, b.control) = 0]_vars

(***************************************************************************)
(* Buttons as axes                                                         *)
(***************************************************************************)

\* C29: for a button control a tick fires axis-changed for it iff its new
\* value is neither exactly 0 nor exactly 1 and differs from its value on
\* the previous tick (0 after connect); a value that changes to exactly 0 or
\* exactly 1 fires no axis-changed; lastState of the button is set to the
\* new value in every case.
ButtonFiresAxisChanged ==
    [][\A s \in Slots :
        TickedOver(s)
        => \A b \in ButtonEntries(s) :
               LET d == ArrGet(gamepads, s).dev
                   previous == ArrGet(gamepads, s).state[b.control]
                   value == RawButton(s, b)
                   fires == AxisFires(events', d, b.control)
               IN  /\ Cardinality(fires) =
                          IF value # 0 /\ value # 100 /\ value # previous THEN 1 ELSE 0
                   /\ \A e \in fires : events'[e].data.value = value
                   /\ ArrGet(gamepads', s).lastState[b.control] = value]_vars

\* a tick released the button of the controller at slot 1 to exactly 0:
\* button-up was fired for it, axis-changed was not
ButtonToZeroSeen ==
    /\ op.name = "tick"
    /\ IsDefined(ArrGet(gamepads, 1))
    /\ ArrGet(gamepads, 1).dev = "padP1"
    /\ ArrGet(gamepads, 1).state["CROSS"] = 0
    /\ ArrGet(gamepads, 1).lastState["CROSS"] = 0
    /\ \E k \in DOMAIN events : events[k].name = Event.BUTTON_UP
    /\ AxisFires(events, "padP1", "CROSS") = {}

\* a tick moved the button of the controller at slot 0 to 0.7 while it was
\* held: axis-changed carries 0.7 and no edge event was fired
ButtonMovedWhileHeldSeen ==
    /\ op.name = "tick"
    /\ IsDefined(ArrGet(gamepads, 0))
    /\ ArrGet(gamepads, 0).dev = "padL0"
    /\ Includes(ArrGet(gamepads, 0).downButtons, "A")
    /\ \A k \in DOMAIN events : events[k].name # Event.BUTTON_DOWN
    /\ \E e \in AxisFires(events, "padL0", "A") : events[e].data.value = 70

\* both on one tick: the button at slot 0 moved while held, the button at
\* slot 1 went to exactly 0
AnalogButtonCasesSeen == ButtonToZeroSeen /\ ButtonMovedWhileHeldSeen

(***************************************************************************)
(* Clearing a channel while it fires                                       *)
(***************************************************************************)

\* C30: a handler that calls unbind() with no arguments, or unbind(channel)
\* for the channel being fired, while that channel fires does not make the
\* fire raise an error: the fire completes normally and no further handler
\* of the cleared channel is invoked.
ClearingInFireReturns ==
    [][(firing.active /\ firing.cleared)
       => /\ invoked' = invoked
          /\ ~firing'.active
          /\ firing'.status = "returned"]_vars

(***************************************************************************)
(* Binding to a channel while it fires                                     *)
(***************************************************************************)

\* C31: a handler bound to a channel by a handler that runs during a fire of
\* that channel is not invoked during that same fire: one fire performs at
\* most as many handler invocations as the channel had bindings when the
\* fire began.
FireInvokesAtMostBindingsAtBegin ==
    firing.status \in {"running", "returned", "threw"}
    => Len(invoked) <= Len(firing.atBegin)

(***************************************************************************)
(* The event trace                                                         *)
(***************************************************************************)

\* some disconnected call among evs, walked in order from the unmatched
\* devices open, names a device that is not unmatched at that point
RECURSIVE Orphaned(_, _)
Orphaned(open, evs) ==
    IF evs = << >> THEN FALSE
    ELSE \/ /\ Head(evs).name = Event.DISCONNECTED
            /\ Head(evs).data \notin open
         \/ Orphaned(Unmatched(open, << Head(evs) >>), Tail(evs))

\* C32: in every event trace each disconnected event for a device is
\* preceded by a connected event for that device that no earlier
\* disconnected event has matched; a device that was reported unsupported
\* never produces a disconnected event.
DisconnectedFollowsConnected ==
    [][~Orphaned(unmatched, events')]_vars

(***************************************************************************)
(* The shape of downButtons                                                *)
(***************************************************************************)

\* C33: in every reachable state each registered controller's downButtons
\* contains no name twice and contains only names of buttons defined in
\* that controller's mapping.
DownButtonsAreDistinctButtons ==
    \A s \in Registered(gamepads) :
        LET entry == ArrGet(gamepads, s)
            list == entry.downButtons
        IN  /\ Cardinality(Held(list)) = Len(list)
            /\ Held(list) \subseteq ButtonNames(entry.mapping)

\* a tick released A of the controller at slot 0 while B stayed held: the
\* removal took the wrong entry, B was pushed again, and both names are in
\* downButtons once
WrongRemovalThenPushSeen ==
    /\ op.name = "tick"
    /\ IsDefined(ArrGet(gamepads, 0))
    /\ ArrGet(gamepads, 0).dev = "padX0"
    /\ ButtonFires(events, Event.BUTTON_UP, "padX0", "A") = 1
    /\ ButtonFires(events, Event.BUTTON_DOWN, "padX0", "B") = 1
    /\ ArrGet(gamepads, 0).downButtons = << "A", "B" >>

====
